---- MODULE Spec2Model ----
(***************************************************************************)
(* xylium-otel: the OpenTelemetry connector (otel.go) and its tracing      *)
(* middleware (middleware.go), as a state machine.                         *)
(*                                                                         *)
(* State: the process-wide OTel globals, the connectors New has returned,  *)
(* the Shutdown calls the tracer providers have received, the middleware   *)
(* closures built by OtelMiddleware, and the requests that are inside a    *)
(* middleware, each with the server span started for it.                   *)
(***************************************************************************)
EXTENDS Integers, Sequences, FiniteSets, Bags, TLC

VARIABLES
    global,       \* otel's process globals: [tp, prop]
    connectors,   \* the *Connector values New has returned, in order
    shutdowns,    \* provider -> number of Shutdown calls it has received
    middlewares,  \* the closures OtelMiddleware has returned, in order
    requests,     \* the bag of requests whose inner handler is running
    last          \* the last step taken and what it returned

vars == <<global, connectors, shutdowns, middlewares, requests, last>>

(***************************************************************************)
(* Bounds of the model.                                                    *)
(***************************************************************************)
MaxRequests == 2
MaxShutdowns == 2
MaxConnectors == 2

(***************************************************************************)
(* Values.                                                                 *)
(***************************************************************************)
Nil == "nil"

\* ExporterType constants.
ExporterOTLPGRPC == "otlp_grpc"
ExporterStdout == "stdout"
ExporterNone == "none"

\* xylium.Mode() values.
DebugMode == "debug"
TestMode == "test"
ReleaseMode == "release"
Modes == {DebugMode, TestMode, ReleaseMode}

\* Config.ManageGlobalProviders is a *bool: nil, or a pointer to true or false.
MGPUnset == "unset"
MGPTrue == "true"
MGPFalse == "false"

\* Seconds New gives Config.ShutdownTimeout when the configured value is <= 0.
DefaultShutdownTimeout == 5

defaultMiddlewareTracerName == "xylium.otel.middleware"
connectorTracerName == "xylium-otel-connector"

\* Tracer providers. DefaultTP is the provider otel.GetTracerProvider() returns
\* before any SetTracerProvider; ExtSDK and ExtTP are the caller's providers;
\* InternalTP(n) is the provider New creates for the n-th connector.
DefaultTP == "defaultTP"
ExtSDK == "extSDK"
ExtTP == "extTP"
InternalTP(n) == "tp" \o ToString(n)
Providers == {DefaultTP, ExtSDK, ExtTP} \cup {InternalTP(n) : n \in 1..MaxConnectors}

\* Propagators. DefaultGlobalProp is what otel.GetTextMapPropagator() returns
\* before any SetTextMapPropagator; CompositeProp is TraceContext+Baggage;
\* EmptyProp is NewCompositeTextMapPropagator() with no members.
DefaultGlobalProp == "defaultGlobalProp"
CompositeProp == "traceContextBaggage"
CustomProp == "customProp"
EmptyProp == "emptyComposite"

(***************************************************************************)
(* Config (otel.go Config struct), as the caller hands it to New.          *)
(***************************************************************************)
AllConfigs ==
    [ AppLogger : {Nil, "logger"},
      ServiceName : {"", "svc"},
      Exporter : {"", ExporterOTLPGRPC, ExporterStdout, ExporterNone, "bogus"},
      OTLPEndpoint : {"", "collector:4317"},
      ExternalTracerProvider : {Nil, ExtTP},
      ExternalSDKTracerProvider : {Nil, ExtSDK},
      ManageGlobalProviders : {MGPUnset, MGPTrue, MGPFalse},
      Propagator : {Nil, CustomProp},
      ShutdownTimeout : {0, 3},
      Disabled : BOOLEAN ]

\* The place of a connector in connectors; NoConnector when New returned none.
NoConnector == 0

\* The nil *Connector New returns beside an error.
NilConnector == [nil |-> TRUE]

(***************************************************************************)
(* New: validation of the required fields (otel.go 389-395).               *)
(***************************************************************************)
ErrLogger == "AppLogger is required"
ErrServiceName == "ServiceName is required"
ErrEndpoint == "OTLPConfig.Endpoint is required"
ErrExporterCtor == "creating exporter"
ErrUnsupported == "unsupported exporter type"
ErrMerge == "merging OTel resources"

\* ValidateConfig without the AppLogger check.
ValidateConfigNoLogger(cfg) ==
    IF /\ cfg.ServiceName = ""
       /\ cfg.ExternalTracerProvider = Nil
       /\ cfg.ExternalSDKTracerProvider = Nil
        THEN ErrServiceName
    ELSE Nil

\* ValidateConfig without the ServiceName check.
ValidateConfigNoServiceName(cfg) ==
    IF cfg.AppLogger = Nil THEN ErrLogger ELSE Nil

ValidateConfig(cfg) ==
    IF cfg.AppLogger = Nil
        THEN ErrLogger
    ELSE IF /\ cfg.ServiceName = ""
            /\ cfg.ExternalTracerProvider = Nil
            /\ cfg.ExternalSDKTracerProvider = Nil
        THEN ErrServiceName
    ELSE Nil

(***************************************************************************)
(* New: the defaults (otel.go 397-420).                                    *)
(***************************************************************************)
\* DefaultExporter that ignores the framework mode.
DefaultExporterAlwaysStdout(mode) == ExporterStdout

DefaultExporter(mode) ==
    IF mode = ReleaseMode THEN ExporterNone ELSE ExporterStdout

ApplyDefaults(cfg, mode) ==
    [ cfg EXCEPT
        !.Exporter = IF @ = "" THEN DefaultExporter(mode) ELSE @,
        !.ShutdownTimeout = IF @ <= 0 THEN DefaultShutdownTimeout ELSE @,
        !.ManageGlobalProviders = IF @ = MGPUnset THEN MGPTrue ELSE @ ]

(***************************************************************************)
(* initInternalTracerProvider (otel.go 503-579). ctorFails and mergeFails  *)
(* are the outcomes of the exporter constructor and of resource.Merge.     *)
(* Returns the provider (or Nil), the error, and how many times the        *)
(* exporter's Shutdown was called.                                         *)
(***************************************************************************)
\* initInternalTracerProvider that leaves the exporter running when the
\* resource merge fails.
initInternalTracerProviderLeaksExporter(cfg, ctorFails, mergeFails, id) ==
    LET fail(e) == [tp |-> Nil, err |-> e, exporterCreated |-> FALSE, exporterShutdowns |-> 0]
    IN  IF cfg.Exporter = ExporterOTLPGRPC /\ cfg.OTLPEndpoint = ""
            THEN fail(ErrEndpoint)
        ELSE IF cfg.Exporter \notin {ExporterOTLPGRPC, ExporterStdout}
            THEN fail(ErrUnsupported)
        ELSE IF ctorFails
            THEN fail(ErrExporterCtor)
        ELSE IF mergeFails
            THEN [tp |-> Nil, err |-> ErrMerge, exporterCreated |-> TRUE, exporterShutdowns |-> 0]
        ELSE [tp |-> id, err |-> Nil, exporterCreated |-> TRUE, exporterShutdowns |-> 0]

\* initInternalTracerProvider without the OTLP endpoint check.
initInternalTracerProviderNoEndpointCheck(cfg, ctorFails, mergeFails, id) ==
    LET fail(e) == [tp |-> Nil, err |-> e, exporterCreated |-> FALSE, exporterShutdowns |-> 0]
    IN  IF cfg.Exporter \notin {ExporterOTLPGRPC, ExporterStdout}
            THEN fail(ErrUnsupported)
        ELSE IF ctorFails
            THEN fail(ErrExporterCtor)
        ELSE IF mergeFails
            THEN [tp |-> Nil, err |-> ErrMerge, exporterCreated |-> TRUE, exporterShutdowns |-> 1]
        ELSE [tp |-> id, err |-> Nil, exporterCreated |-> TRUE, exporterShutdowns |-> 0]

initInternalTracerProvider(cfg, ctorFails, mergeFails, id) ==
    LET fail(e) == [tp |-> Nil, err |-> e, exporterCreated |-> FALSE, exporterShutdowns |-> 0]
    IN  IF cfg.Exporter = ExporterOTLPGRPC /\ cfg.OTLPEndpoint = ""
            THEN fail(ErrEndpoint)
        ELSE IF cfg.Exporter \notin {ExporterOTLPGRPC, ExporterStdout}
            THEN fail(ErrUnsupported)
        ELSE IF ctorFails
            THEN fail(ErrExporterCtor)
        ELSE IF mergeFails
            THEN [tp |-> Nil, err |-> ErrMerge, exporterCreated |-> TRUE, exporterShutdowns |-> 1]
        ELSE [tp |-> id, err |-> Nil, exporterCreated |-> TRUE, exporterShutdowns |-> 0]

(***************************************************************************)
(* Connector (otel.go 365-371). config keeps the fields of Config that are *)
(* read after New returns (AppLogger, ManageGlobalProviders and            *)
(* ShutdownTimeout) and the Disabled flag the connector was built with.    *)
(***************************************************************************)
NoTracer == [tp |-> Nil, name |-> Nil]

ConnConfig(cfg) ==
    [ AppLogger |-> cfg.AppLogger,
      ManageGlobalProviders |-> cfg.ManageGlobalProviders,
      ShutdownTimeout |-> cfg.ShutdownTimeout,
      Disabled |-> cfg.Disabled ]

\* &Connector{isNoOp: true, config: cfg} (otel.go 386)
DisabledConnector(cfg) ==
    [ isNoOp |-> TRUE,
      config |-> ConnConfig(cfg),
      tracerProvider |-> Nil,
      tracer |-> NoTracer,
      propagator |-> Nil ]

(***************************************************************************)
(* New: which tracer provider the connector uses (otel.go 427-462), for a  *)
(* config that passed validation and got its defaults. g is the global     *)
(* state before the call, id the identity of a provider created here.      *)
(* source is "extSDK", "ext", "internal" or "none".                        *)
(***************************************************************************)
\* ProviderSource that looks at the exporter before the external providers.
ProviderSourceNoneFirst(cfg) ==
    IF cfg.Exporter = ExporterNone THEN "none"
    ELSE IF cfg.ExternalSDKTracerProvider # Nil THEN "extSDK"
    ELSE IF cfg.ExternalTracerProvider # Nil THEN "ext"
    ELSE "internal"

\* ProviderSource that builds the configured exporter whenever there is one.
ProviderSourceInternalFirst(cfg) ==
    IF cfg.Exporter # ExporterNone THEN "internal"
    ELSE IF cfg.ExternalSDKTracerProvider # Nil THEN "extSDK"
    ELSE IF cfg.ExternalTracerProvider # Nil THEN "ext"
    ELSE "none"

\* ProviderSource that looks at ExternalTracerProvider first.
ProviderSourceExtFirst(cfg) ==
    IF cfg.ExternalTracerProvider # Nil THEN "ext"
    ELSE IF cfg.ExternalSDKTracerProvider # Nil THEN "extSDK"
    ELSE IF cfg.Exporter # ExporterNone THEN "internal"
    ELSE "none"

ProviderSource(cfg) ==
    IF cfg.ExternalSDKTracerProvider # Nil THEN "extSDK"
    ELSE IF cfg.ExternalTracerProvider # Nil THEN "ext"
    ELSE IF cfg.Exporter # ExporterNone THEN "internal"
    ELSE "none"

\* ResolveProvider that stores a provider of its own in c.tracerProvider on the
\* external branches too.
ResolveProviderAlwaysManaged(cfg, ctorFails, mergeFails, g, id) ==
    LET src == ProviderSource(cfg)
        ok(actual, managed, noop) ==
            [ err |-> Nil, actual |-> actual, tracerProvider |-> managed, isNoOp |-> noop,
              exporterCreated |-> FALSE, exporterShutdowns |-> 0 ]
    IN  CASE src = "extSDK" -> ok(cfg.ExternalSDKTracerProvider, id, FALSE)
          [] src = "ext" -> ok(cfg.ExternalTracerProvider, id, FALSE)
          [] src = "internal" ->
                LET r == initInternalTracerProvider(cfg, ctorFails, mergeFails, id)
                IN  [ err |-> r.err, actual |-> r.tp, tracerProvider |-> r.tp, isNoOp |-> FALSE,
                      exporterCreated |-> r.exporterCreated,
                      exporterShutdowns |-> r.exporterShutdowns ]
          [] OTHER -> ok(g.tp, Nil, TRUE)

ResolveProvider(cfg, ctorFails, mergeFails, g, id) ==
    LET src == ProviderSource(cfg)
        ok(actual, managed, noop) ==
            [ err |-> Nil, actual |-> actual, tracerProvider |-> managed, isNoOp |-> noop,
              exporterCreated |-> FALSE, exporterShutdowns |-> 0 ]
    IN  CASE src = "extSDK" -> ok(cfg.ExternalSDKTracerProvider, Nil, FALSE)
          [] src = "ext" -> ok(cfg.ExternalTracerProvider, Nil, FALSE)
          [] src = "internal" ->
                LET r == initInternalTracerProvider(cfg, ctorFails, mergeFails, id)
                IN  [ err |-> r.err, actual |-> r.tp, tracerProvider |-> r.tp, isNoOp |-> FALSE,
                      exporterCreated |-> r.exporterCreated,
                      exporterShutdowns |-> r.exporterShutdowns ]
          [] OTHER -> ok(g.tp, Nil, TRUE)

\* otel.SetTracerProvider is called in the three branches that have a provider
\* of their own, when *ManageGlobalProviders (otel.go 434, 441, 452).
RegistersProviderAlways(cfg) ==
    ProviderSource(cfg) # "none"

RegistersProvider(cfg) ==
    /\ ProviderSource(cfg) # "none"
    /\ cfg.ManageGlobalProviders = MGPTrue

\* otel.SetTextMapPropagator is called in both propagator branches when
\* *ManageGlobalProviders (otel.go 467, 478).
RegistersPropagator(cfg) ==
    cfg.ManageGlobalProviders = MGPTrue

\* c.propagator (otel.go 465-477)
ConnectorPropagator(cfg) ==
    IF cfg.Propagator # Nil THEN cfg.Propagator ELSE CompositeProp

\* New that registers the propagator before anything else, so also when it
\* fails afterwards.
NewResultRegistersFirst(cfg, mode, ctorFails, mergeFails, g, id) ==
    LET failed(e, created, shut) ==
            [ conn |-> NilConnector, err |-> e,
              global |-> [ tp |-> g.tp,
                           prop |-> IF cfg.ManageGlobalProviders # MGPFalse
                                      THEN ConnectorPropagator(cfg) ELSE g.prop ],
              exporterCreated |-> created, exporterShutdowns |-> shut ]
    IN  IF cfg.Disabled
            THEN [ conn |-> DisabledConnector(cfg), err |-> Nil, global |-> g,
                   exporterCreated |-> FALSE, exporterShutdowns |-> 0 ]
        ELSE IF ValidateConfig(cfg) # Nil
            THEN failed(ValidateConfig(cfg), FALSE, 0)
        ELSE
            LET c == ApplyDefaults(cfg, mode)
                p == ResolveProvider(c, ctorFails, mergeFails, g, id)
            IN  IF p.err # Nil
                    THEN failed(p.err, p.exporterCreated, p.exporterShutdowns)
                ELSE
                    [ conn |-> [ isNoOp |-> p.isNoOp,
                                 config |-> ConnConfig(c),
                                 tracerProvider |-> p.tracerProvider,
                                 tracer |-> [tp |-> p.actual, name |-> connectorTracerName],
                                 propagator |-> ConnectorPropagator(c) ],
                      err |-> Nil,
                      global |-> [ tp |-> IF RegistersProvider(c) THEN p.actual ELSE g.tp,
                                   prop |-> IF RegistersPropagator(c)
                                              THEN ConnectorPropagator(c) ELSE g.prop ],
                      exporterCreated |-> p.exporterCreated,
                      exporterShutdowns |-> p.exporterShutdowns ]

\* New that hands back the connector it was building when it fails.
NewResultPartialOnFailure(cfg, mode, ctorFails, mergeFails, g, id) ==
    LET failed(e, created, shut) ==
            [ conn |-> [ isNoOp |-> FALSE, config |-> ConnConfig(cfg), tracerProvider |-> Nil,
                          tracer |-> NoTracer, propagator |-> Nil ],
              err |-> e, global |-> g,
              exporterCreated |-> created, exporterShutdowns |-> shut ]
    IN  IF cfg.Disabled
            THEN [ conn |-> DisabledConnector(cfg), err |-> Nil, global |-> g,
                   exporterCreated |-> FALSE, exporterShutdowns |-> 0 ]
        ELSE IF ValidateConfig(cfg) # Nil
            THEN failed(ValidateConfig(cfg), FALSE, 0)
        ELSE
            LET c == ApplyDefaults(cfg, mode)
                p == ResolveProvider(c, ctorFails, mergeFails, g, id)
            IN  IF p.err # Nil
                    THEN failed(p.err, p.exporterCreated, p.exporterShutdowns)
                ELSE
                    [ conn |-> [ isNoOp |-> p.isNoOp,
                                 config |-> ConnConfig(c),
                                 tracerProvider |-> p.tracerProvider,
                                 tracer |-> [tp |-> p.actual, name |-> connectorTracerName],
                                 propagator |-> ConnectorPropagator(c) ],
                      err |-> Nil,
                      global |-> [ tp |-> IF RegistersProvider(c) THEN p.actual ELSE g.tp,
                                   prop |-> IF RegistersPropagator(c)
                                              THEN ConnectorPropagator(c) ELSE g.prop ],
                      exporterCreated |-> p.exporterCreated,
                      exporterShutdowns |-> p.exporterShutdowns ]

(***************************************************************************)
(* New (otel.go 378-498): the connector and error it returns and the       *)
(* globals it leaves, from the config, the framework mode, the outcomes of *)
(* the exporter constructor and resource merge, and the globals before.    *)
(***************************************************************************)
NewResult(cfg, mode, ctorFails, mergeFails, g, id) ==
    LET failed(e, created, shut) ==
            [ conn |-> NilConnector, err |-> e, global |-> g,
              exporterCreated |-> created, exporterShutdowns |-> shut ]
    IN  IF cfg.Disabled
            THEN [ conn |-> DisabledConnector(cfg), err |-> Nil, global |-> g,
                   exporterCreated |-> FALSE, exporterShutdowns |-> 0 ]
        ELSE IF ValidateConfig(cfg) # Nil
            THEN failed(ValidateConfig(cfg), FALSE, 0)
        ELSE
            LET c == ApplyDefaults(cfg, mode)
                p == ResolveProvider(c, ctorFails, mergeFails, g, id)
            IN  IF p.err # Nil
                    THEN failed(p.err, p.exporterCreated, p.exporterShutdowns)
                ELSE
                    [ conn |-> [ isNoOp |-> p.isNoOp,
                                 config |-> ConnConfig(c),
                                 tracerProvider |-> p.tracerProvider,
                                 tracer |-> [tp |-> p.actual, name |-> connectorTracerName],
                                 propagator |-> ConnectorPropagator(c) ],
                      err |-> Nil,
                      global |-> [ tp |-> IF RegistersProvider(c) THEN p.actual ELSE g.tp,
                                   prop |-> IF RegistersPropagator(c)
                                              THEN ConnectorPropagator(c) ELSE g.prop ],
                      exporterCreated |-> p.exporterCreated,
                      exporterShutdowns |-> p.exporterShutdowns ]

\* xylium.Mode() is read only when Config.Exporter is empty, on the path past
\* validation (otel.go 398-399).
ReadsMode(cfg) ==
    ~cfg.Disabled /\ ValidateConfig(cfg) = Nil /\ cfg.Exporter = ""

\* The exporter constructor and resource.Merge run only on the internal path.
BuildsExporter(cfg, mode) ==
    /\ ~cfg.Disabled
    /\ ValidateConfig(cfg) = Nil
    /\ ProviderSource(ApplyDefaults(cfg, mode)) = "internal"

(***************************************************************************)
(* Connector.IsNoOp (otel.go 683-685)                                      *)
(***************************************************************************)
IsNoOp(c) == c.isNoOp

\* GetTracer that always asks the global provider.
GetTracerAlwaysGlobal(c, g, instrumentationName) ==
    [tp |-> g.tp, name |-> instrumentationName]

(***************************************************************************)
(* Connector.GetTracer (otel.go 587-615): the tracer, as the provider it   *)
(* comes from and its instrumentation name. g is the global state at the   *)
(* time of the call.                                                       *)
(***************************************************************************)
GetTracer(c, g, instrumentationName) ==
    IF c.isNoOp
        THEN [tp |-> g.tp, name |-> instrumentationName]
    ELSE IF c.config.ManageGlobalProviders = MGPFalse
        THEN IF c.tracerProvider # Nil
                THEN [tp |-> c.tracerProvider, name |-> instrumentationName]
             ELSE IF c.tracer # NoTracer
                THEN c.tracer
             ELSE [tp |-> g.tp, name |-> instrumentationName]
    ELSE [tp |-> g.tp, name |-> instrumentationName]

(***************************************************************************)
(* Connector.Propagator (otel.go 620-638)                                  *)
(***************************************************************************)
Propagator(c, g) ==
    IF c.isNoOp
        THEN EmptyProp
    ELSE IF c.config.ManageGlobalProviders = MGPFalse
        THEN IF c.propagator # Nil THEN c.propagator ELSE g.prop
    ELSE g.prop

(***************************************************************************)
(* MiddlewareConfig (middleware.go 21-44). A Filter is a predicate on the  *)
(* request; the one drawn here skips the health-check path.                *)
(***************************************************************************)
SkipHealth == "skipHealth"
CustomFormatter == "customFormatter"
DefaultFormatter == "defaultFormatter"

MiddlewareConfigs ==
    [ TracerName : {"", "app.http"},
      SpanNameFormatter : {Nil, CustomFormatter},
      Filter : {Nil, SkipHealth} ]

\* cfg.TracerName after the default is applied (middleware.go 84-86)
TracerNameOf(mwcfg) ==
    IF mwcfg.TracerName = "" THEN defaultMiddlewareTracerName ELSE mwcfg.TracerName

\* cfg.SpanNameFormatter after the default is applied (middleware.go 87-99)
FormatterOf(mwcfg) ==
    IF mwcfg.SpanNameFormatter = Nil THEN DefaultFormatter ELSE mwcfg.SpanNameFormatter

(***************************************************************************)
(* OtelMiddleware (middleware.go 63-105): the closure it returns. For a    *)
(* no-op connector the closure captures nothing but next; otherwise it     *)
(* captures cfg, the tracer and the propagator obtained at this moment.    *)
(***************************************************************************)
\* BuildMiddleware without the IsNoOp early return.
BuildMiddlewareNoNoOpCheck(i, c, g, mwcfg) ==
    [ conn |-> i, passThrough |-> FALSE,
      TracerName |-> TracerNameOf(mwcfg),
      SpanNameFormatter |-> FormatterOf(mwcfg),
      Filter |-> mwcfg.Filter,
      tracer |-> GetTracer(c, g, TracerNameOf(mwcfg)),
      propagator |-> Propagator(c, g) ]

BuildMiddleware(i, c, g, mwcfg) ==
    IF IsNoOp(c)
        THEN [ conn |-> i, passThrough |-> TRUE,
               TracerName |-> Nil, SpanNameFormatter |-> Nil, Filter |-> Nil,
               tracer |-> NoTracer, propagator |-> Nil ]
    ELSE [ conn |-> i, passThrough |-> FALSE,
           TracerName |-> TracerNameOf(mwcfg),
           SpanNameFormatter |-> FormatterOf(mwcfg),
           Filter |-> mwcfg.Filter,
           tracer |-> GetTracer(c, g, TracerNameOf(mwcfg)),
           propagator |-> Propagator(c, g) ]

(***************************************************************************)
(* A request, as the middleware sees it: the path, whether it carries      *)
(* trace-propagation headers, and the Go context it arrives with.          *)
(***************************************************************************)
Paths == {"/health", "/api"}
OrigCtx == "origCtx"
TracedCtx == "tracedCtx"

\* The keys of the request-scoped store (xylium.ContextKeyOtelTraceID, ...SpanID).
ContextKeyOtelTraceID == "otel_trace_id"
ContextKeyOtelSpanID == "otel_span_id"

\* cfg.Filter(c)
FilterResult(filter, path) ==
    filter = SkipHealth /\ path = "/health"

\* cfg.Filter != nil && cfg.Filter(c) (middleware.go 110)
Skipped(mw, path) ==
    mw.Filter # Nil /\ FilterResult(mw.Filter, path)

\* Extract that never finds a remote parent.
ExtractIgnoresHeaders(prop, hasHeaders) == "root"

\* propagator.Extract (middleware.go 122): the parent the span will get.
\* hasHeaders says the request carries the headers of the propagator in use.
Extract(prop, hasHeaders) ==
    IF hasHeaders /\ prop \in {CompositeProp, CustomProp} THEN "remote" ELSE "root"

\* span.SpanContext() (middleware.go 168): whether it has a trace id and a
\* span id. A span of an SDK provider has both and a span of the default
\* (no-op) global provider has neither; ExternalTracerProvider is any
\* implementation of the trace.TracerProvider interface, so a span of it has
\* whichever that implementation gives it.
ValidSpanContext == [traceID |-> TRUE, spanID |-> TRUE]
InvalidSpanContext == [traceID |-> FALSE, spanID |-> FALSE]

SpanContexts(tracer) ==
    IF tracer.tp \in {Nil, DefaultTP} THEN {InvalidSpanContext}
    ELSE IF tracer.tp = ExtTP THEN {ValidSpanContext, InvalidSpanContext}
    ELSE {ValidSpanContext}

NoSpan == [ tracer |-> NoTracer, parent |-> Nil, sc |-> InvalidSpanContext, status |-> "Unset",
            recorded |-> <<>>, statusCode |-> 0, ends |-> 0 ]

\* tracer.Start(propagatedCtx, spanName, ...) (middleware.go 164)
StartSpan(tracer, parent, sc) ==
    [ tracer |-> tracer, parent |-> parent, sc |-> sc, status |-> "Unset",
      recorded |-> <<>>, statusCode |-> 0, ends |-> 0 ]

\* c.Set of the two ids (middleware.go 168-174)
\* InjectIDs that writes nothing into the store.
InjectIDsNone(span) == {}

InjectIDs(span) ==
    (IF span.sc.traceID THEN {ContextKeyOtelTraceID} ELSE {})
        \cup (IF span.sc.spanID THEN {ContextKeyOtelSpanID} ELSE {})

InjectEvents(span) ==
    (IF span.sc.traceID THEN <<"setTraceID">> ELSE <<>>)
        \o (IF span.sc.spanID THEN <<"setSpanID">> ELSE <<>>)

(***************************************************************************)
(* The middleware body up to the call of next (middleware.go 71-72 for the *)
(* pass-through closure, 108-181 for the tracing one): the request record  *)
(* at the moment the inner handler starts to run.                          *)
(***************************************************************************)
PassThrough(m, path, hasHeaders) ==
    [ mw |-> m, path |-> path, hasHeaders |-> hasHeaders,
      events |-> <<"next">>, traced |-> FALSE,
      store |-> {}, handlerCtx |-> OrigCtx, span |-> NoSpan ]

\* SkipTracing that returns without calling the inner handler.
SkipTracingWithoutNext(m, path, hasHeaders) ==
    [ mw |-> m, path |-> path, hasHeaders |-> hasHeaders,
      events |-> <<"filter">>, traced |-> FALSE,
      store |-> {}, handlerCtx |-> OrigCtx, span |-> NoSpan ]

SkipTracing(m, path, hasHeaders) ==
    [ mw |-> m, path |-> path, hasHeaders |-> hasHeaders,
      events |-> <<"filter", "next">>, traced |-> FALSE,
      store |-> {}, handlerCtx |-> OrigCtx, span |-> NoSpan ]

Trace(m, mw, path, hasHeaders, sc) ==
    LET span == StartSpan(mw.tracer, Extract(mw.propagator, hasHeaders), sc)
    IN  [ mw |-> m, path |-> path, hasHeaders |-> hasHeaders,
          events |-> (IF mw.Filter # Nil THEN <<"filter">> ELSE <<>>)
                       \o <<"extract", "formatter", "start">>
                       \o InjectEvents(span) \o <<"next">>,
          traced |-> TRUE,
          store |-> InjectIDs(span), handlerCtx |-> TracedCtx, span |-> span ]

\* Enter with the filter consulted but its result not honoured.
EnterTraceAlways(m, mw, path, hasHeaders, sc) ==
    IF mw.passThrough THEN PassThrough(m, path, hasHeaders)
    ELSE Trace(m, mw, path, hasHeaders, sc)

Enter(m, mw, path, hasHeaders, sc) ==
    IF mw.passThrough THEN PassThrough(m, path, hasHeaders)
    ELSE IF Skipped(mw, path) THEN SkipTracing(m, path, hasHeaders)
    ELSE Trace(m, mw, path, hasHeaders, sc)

(***************************************************************************)
(* The middleware body after next returned (middleware.go 183-201).        *)
(***************************************************************************)
HandlerErrors == {Nil, "e1", "e2"}
StatusCodes == {499, 500}
StatusInternalServerError == 500

\* span.SetAttributes(status code), then RecordError/SetStatus (184-199)
\* RecordOutcome with the status decided by the status code alone.
RecordOutcomeStatusByCode(span, err, statusCode) ==
    LET s == [span EXCEPT !.statusCode = statusCode]
        r == IF err # Nil THEN [s EXCEPT !.recorded = Append(@, err)] ELSE s
    IN  IF statusCode >= StatusInternalServerError
            THEN [r EXCEPT !.status = "Error"]
        ELSE r

\* RecordOutcome with the threshold at client errors (>= 400).
RecordOutcomeClientErrors(span, err, statusCode) ==
    LET s == [span EXCEPT !.statusCode = statusCode]
    IN  IF err # Nil
            THEN [s EXCEPT !.recorded = Append(@, err), !.status = "Error"]
        ELSE IF statusCode >= 400
            THEN [s EXCEPT !.status = "Error"]
        ELSE s

RecordOutcome(span, err, statusCode) ==
    LET s == [span EXCEPT !.statusCode = statusCode]
    IN  IF err # Nil
            THEN [s EXCEPT !.recorded = Append(@, err), !.status = "Error"]
        ELSE IF statusCode >= StatusInternalServerError
            THEN [s EXCEPT !.status = "Error"]
        ELSE s

OutcomeEvents(err, statusCode) ==
    <<"statusAttr">>
        \o (IF err # Nil THEN <<"recordError", "setStatus">>
            ELSE IF statusCode >= StatusInternalServerError THEN <<"setStatus">>
            ELSE <<>>)

\* span.End()
EndSpan(span) == [span EXCEPT !.ends = @ + 1]

\* defer span.End() (middleware.go 165): the deferred call, run when the
\* traced body exits, by return or by panic.
RunDeferred(req) ==
    [req EXCEPT !.span = EndSpan(@), !.events = @ \o <<"end">>]

\* Returned with the handler's error swallowed.
ReturnedSwallowed(err) == Nil

\* What the closure returns for what next returned (72, 114, 201).
Returned(err) == err

\* AfterReturn with span.End() called right after next returns, before the
\* outcome is recorded.
AfterReturnEndFirst(req, err, statusCode) ==
    IF req.traced
        THEN LET ended == RunDeferred(req)
                 body == [ ended EXCEPT
                             !.span = RecordOutcome(@, err, statusCode),
                             !.events = @ \o OutcomeEvents(err, statusCode) ]
             IN  [body EXCEPT !.events = @ \o <<"return">>]
    ELSE [req EXCEPT !.events = @ \o <<"return">>]

\* AfterReturn with span.End() called at the end of the success path only,
\* instead of deferred.
AfterReturnEndOnSuccess(req, err, statusCode) ==
    IF req.traced
        THEN LET body == [ req EXCEPT
                             !.span = RecordOutcome(@, err, statusCode),
                             !.events = @ \o OutcomeEvents(err, statusCode) ]
             IN  IF err = Nil
                    THEN [RunDeferred(body) EXCEPT !.events = @ \o <<"return">>]
                 ELSE [body EXCEPT !.events = @ \o <<"return">>]
    ELSE [req EXCEPT !.events = @ \o <<"return">>]

\* The request when next has returned err with the response status set.
AfterReturn(req, err, statusCode) ==
    IF req.traced
        THEN LET body == [ req EXCEPT
                             !.span = RecordOutcome(@, err, statusCode),
                             !.events = @ \o OutcomeEvents(err, statusCode) ]
             IN  [RunDeferred(body) EXCEPT !.events = @ \o <<"return">>]
    ELSE [req EXCEPT !.events = @ \o <<"return">>]

\* AfterPanic with span.End() not deferred: a panic skips it.
AfterPanicNoDeferred(req) == req

\* The request when next has panicked: only the deferred call runs.
AfterPanic(req) ==
    IF req.traced THEN RunDeferred(req) ELSE req

(***************************************************************************)
(* Connector.Close (otel.go 645-678): the provider whose Shutdown it       *)
(* calls, or Nil.                                                          *)
(***************************************************************************)
\* ShutdownTarget taking the provider the connector uses, whoever owns it.
ShutdownTargetUsedProvider(c) ==
    IF c.isNoOp THEN Nil ELSE c.tracer.tp

ShutdownTarget(c) ==
    IF c.isNoOp THEN Nil
    ELSE IF c.tracerProvider # Nil THEN c.tracerProvider
    ELSE Nil

ErrShutdown == "shutdown failed"

\* CloseError that logs the Shutdown error and returns nil.
CloseErrorSwallowed(shutdownErr) == <<>>

\* The error Close returns for what Shutdown returned (otel.go 662-671): nil,
\* or the Shutdown error wrapped with %w.
CloseError(shutdownErr) ==
    IF shutdownErr # Nil THEN <<"shutting down managed TracerProvider", shutdownErr>> ELSE <<>>

Init ==
    /\ global = [tp |-> DefaultTP, prop |-> DefaultGlobalProp]
    /\ connectors = <<>>
    /\ shutdowns = [p \in Providers |-> 0]
    /\ middlewares = <<>>
    /\ requests = EmptyBag
    /\ last = [op |-> "none"]

(***************************************************************************)
(* The call New(cfg).                                                      *)
(***************************************************************************)
New(cfg) ==
    \E mode \in (IF ReadsMode(cfg) THEN Modes ELSE {Nil}) :
      \E ctorFails, mergeFails \in (IF BuildsExporter(cfg, mode) THEN BOOLEAN ELSE {FALSE}) :
        LET id == InternalTP(Len(connectors) + 1)
            r == NewResult(cfg, mode, ctorFails, mergeFails, global, id)
        IN  /\ global' = r.global
            /\ connectors' = IF r.conn # NilConnector THEN Append(connectors, r.conn)
                              ELSE connectors
            /\ last' = [ op |-> "New",
                         cfg |-> cfg,
                         mode |-> mode,
                         err |-> r.err,
                         conn |-> IF r.conn # NilConnector THEN Len(connectors) + 1
                                  ELSE NoConnector,
                         ctorFails |-> ctorFails,
                         mergeFails |-> mergeFails,
                         globalBefore |-> global,
                         exporterCreated |-> r.exporterCreated,
                         exporterShutdowns |-> r.exporterShutdowns ]
            /\ UNCHANGED <<shutdowns, middlewares, requests>>

(***************************************************************************)
(* The call connectors[i].OtelMiddleware(mwcfg).                           *)
(***************************************************************************)
OtelMiddleware(i, mwcfg) ==
    /\ i \in 1..Len(connectors)
    /\ middlewares' = Append(middlewares, BuildMiddleware(i, connectors[i], global, mwcfg))
    /\ last' = [op |-> "OtelMiddleware", conn |-> i, mw |-> Len(middlewares) + 1]
    /\ UNCHANGED <<global, connectors, shutdowns, requests>>

(***************************************************************************)
(* A request enters middleware m and runs up to the call of next.          *)
(***************************************************************************)
MwEnter(m, path, hasHeaders) ==
    /\ m \in 1..Len(middlewares)
    /\ BagCardinality(requests) < MaxRequests
    /\ \E sc \in SpanContexts(middlewares[m].tracer) :
          requests' = requests (+) SetToBag({Enter(m, middlewares[m], path, hasHeaders, sc)})
    /\ last' = [op |-> "Enter", mw |-> m]
    /\ UNCHANGED <<global, connectors, shutdowns, middlewares>>

(***************************************************************************)
(* The inner handler of request req returns err, the response status being *)
(* statusCode; the middleware runs to its return.                          *)
(***************************************************************************)
HandlerReturn(req, err, statusCode) ==
    /\ BagIn(req, requests)
    /\ requests' = requests (-) SetToBag({req})
    /\ last' = [ op |-> "Return",
                 req |-> AfterReturn(req, err, statusCode),
                 handlerErr |-> err,
                 statusCode |-> statusCode,
                 err |-> Returned(err) ]
    /\ UNCHANGED <<global, connectors, shutdowns, middlewares>>

(***************************************************************************)
(* The inner handler of request req panics; the panic unwinds the          *)
(* middleware.                                                             *)
(***************************************************************************)
HandlerPanic(req) ==
    /\ BagIn(req, requests)
    /\ requests' = requests (-) SetToBag({req})
    /\ last' = [op |-> "Panic", req |-> AfterPanic(req)]
    /\ UNCHANGED <<global, connectors, shutdowns, middlewares>>

\* Close that clears the connector's provider field after the shutdown.
CloseClearsProvider(i) ==
    /\ i \in 1..Len(connectors)
    /\ LET c == connectors[i]
           p == ShutdownTarget(c)
       IN  IF p = Nil
               THEN /\ last' = [ op |-> "Close", conn |-> i, shutdown |-> Nil,
                                 timeout |-> 0, shutdownErr |-> Nil, err |-> <<>> ]
                    /\ UNCHANGED <<shutdowns, connectors>>
           ELSE /\ shutdowns[p] < MaxShutdowns
                /\ \E shutdownErr \in {Nil, ErrShutdown} :
                      /\ shutdowns' = [shutdowns EXCEPT ![p] = @ + 1]
                      /\ connectors' = [connectors EXCEPT ![i].tracerProvider = Nil]
                      /\ last' = [ op |-> "Close", conn |-> i, shutdown |-> p,
                                   timeout |-> c.config.ShutdownTimeout,
                                   shutdownErr |-> shutdownErr,
                                   err |-> CloseError(shutdownErr) ]
    /\ UNCHANGED <<global, middlewares, requests>>

(***************************************************************************)
(* The call connectors[i].Close(). shutdownErr is what the provider's      *)
(* Shutdown returns when Close calls it.                                   *)
(***************************************************************************)
Close(i) ==
    /\ i \in 1..Len(connectors)
    /\ LET c == connectors[i]
           p == ShutdownTarget(c)
       IN  IF p = Nil
               THEN /\ last' = [ op |-> "Close", conn |-> i, shutdown |-> Nil,
                                 timeout |-> 0, shutdownErr |-> Nil, err |-> <<>> ]
                    /\ UNCHANGED shutdowns
           ELSE /\ shutdowns[p] < MaxShutdowns
                /\ \E shutdownErr \in {Nil, ErrShutdown} :
                      /\ shutdowns' = [shutdowns EXCEPT ![p] = @ + 1]
                      /\ last' = [ op |-> "Close", conn |-> i, shutdown |-> p,
                                   timeout |-> c.config.ShutdownTimeout,
                                   shutdownErr |-> shutdownErr,
                                   err |-> CloseError(shutdownErr) ]
    /\ UNCHANGED <<global, connectors, middlewares, requests>>

(***************************************************************************)
(* An application builds its connector and its middleware at startup, then *)
(* serves requests (example/main.go 47-112): New is the first call, and    *)
(* OtelMiddleware is called on the connector before any request arrives.   *)
(***************************************************************************)
Next ==
    \/ /\ last.op = "none"
       /\ \E cfg \in AllConfigs : New(cfg)
    \/ /\ middlewares = <<>>
       /\ \E i \in 1..Len(connectors), mwcfg \in MiddlewareConfigs : OtelMiddleware(i, mwcfg)
    \/ \E m \in 1..Len(middlewares), path \in Paths, hasHeaders \in BOOLEAN :
          MwEnter(m, path, hasHeaders)
    \/ \E req \in BagToSet(requests), err \in HandlerErrors, statusCode \in StatusCodes :
          HandlerReturn(req, err, statusCode)
    \/ \E req \in BagToSet(requests) : HandlerPanic(req)
    \/ \E i \in 1..Len(connectors) : Close(i)

Spec == Init /\ [][Next]_vars

(***************************************************************************)
(* A process that builds several connectors. New is an exported function   *)
(* and the OTel globals it reads and sets are shared by all its calls      *)
(* (otel.go 427-484): the connectors are built one after the other at      *)
(* startup, then a middleware is built on one of them and requests are     *)
(* served. The configs are well-formed ones, one for each way New ends:    *)
(* internal provider with and without managing the globals, disabled,      *)
(* exporter none, external provider with and without managing the globals, *)
(* both external providers, and one without the required logger.           *)
(***************************************************************************)
BaseConfig ==
    [ AppLogger |-> "logger",
      ServiceName |-> "svc",
      Exporter |-> ExporterStdout,
      OTLPEndpoint |-> "",
      ExternalTracerProvider |-> Nil,
      ExternalSDKTracerProvider |-> Nil,
      ManageGlobalProviders |-> MGPUnset,
      Propagator |-> Nil,
      ShutdownTimeout |-> 0,
      Disabled |-> FALSE ]

ConnectorConfigs ==
    { BaseConfig,
      [BaseConfig EXCEPT !.ManageGlobalProviders = MGPFalse],
      [BaseConfig EXCEPT !.Disabled = TRUE],
      [BaseConfig EXCEPT !.AppLogger = Nil],
      [BaseConfig EXCEPT !.Exporter = ExporterNone],
      [BaseConfig EXCEPT !.ExternalTracerProvider = ExtTP, !.Propagator = CustomProp],
      [BaseConfig EXCEPT !.ExternalTracerProvider = ExtTP, !.Propagator = CustomProp,
                         !.ManageGlobalProviders = MGPFalse],
      [BaseConfig EXCEPT !.ExternalSDKTracerProvider = ExtSDK,
                         !.ExternalTracerProvider = ExtTP,
                         !.ManageGlobalProviders = MGPFalse] }

\* OtelMiddleware() called without a MiddlewareConfig (middleware.go 78-81).
DefaultMiddlewareConfig ==
    [TracerName |-> "", SpanNameFormatter |-> Nil, Filter |-> Nil]

NextConnectors ==
    \/ /\ last.op \in {"none", "New"}
       /\ Len(connectors) < MaxConnectors
       /\ \E cfg \in ConnectorConfigs : New(cfg)
    \/ /\ middlewares = <<>>
       /\ \E i \in 1..Len(connectors) : OtelMiddleware(i, DefaultMiddlewareConfig)
    \/ \E m \in 1..Len(middlewares), hasHeaders \in BOOLEAN : MwEnter(m, "/api", hasHeaders)
    \/ \E req \in BagToSet(requests), err \in {Nil, "e1"} :
          HandlerReturn(req, err, StatusInternalServerError)
    \/ \E req \in BagToSet(requests) : HandlerPanic(req)
    \/ \E i \in 1..Len(connectors) : Close(i)

SpecConnectors == Init /\ [][NextConnectors]_vars

(***************************************************************************)
(* Properties.                                                             *)
(***************************************************************************)
Count(seq, e) == Cardinality({k \in DOMAIN seq : seq[k] = e})

\* The request that left the middleware in the last step.
Finished == last.op \in {"Return", "Panic"}

\* The connector and the middleware configuration behind a request.
ConnectorOf(req) == connectors[middlewares[req.mw].conn]
FilterOf(req) == middlewares[req.mw].Filter

\* The request's filter predicate exists and answers true.
FilterHit(req) == FilterOf(req) = SkipHealth /\ req.path = "/health"

\* A request the tracing middleware handles: active connector, not filtered.
TracedCase(req) == ~ConnectorOf(req).isNoOp /\ ~FilterHit(req)

Running == BagToSet(requests)

\* C1: a request handled by the tracing middleware has, when the inner handler
\* has returned (with or without an error), exactly one span started and
\* exactly one span ended; while the handler runs the span is started and not
\* yet ended.
C1_OneSpanStartedAndEnded ==
    /\ (last.op = "Return" /\ TracedCase(last.req)) =>
          /\ Count(last.req.events, "start") = 1
          /\ Count(last.req.events, "end") = 1
          /\ last.req.span.ends = 1
    /\ \A req \in Running : TracedCase(req) =>
          /\ Count(req.events, "start") = 1
          /\ Count(req.events, "end") = 0
          /\ req.span.ends = 0

C1_Witness ==
    /\ last.op = "Return"
    /\ TracedCase(last.req)
    /\ last.handlerErr # Nil
    /\ last.req.span.ends = 1

\* C2: when the inner handler of a traced request panics, the span started
\* for the request is ended exactly once.
C2_PanicEndsSpanOnce ==
    (last.op = "Panic" /\ TracedCase(last.req)) =>
        /\ Count(last.req.events, "start") = 1
        /\ Count(last.req.events, "end") = 1
        /\ last.req.span.ends = 1

C2_Witness ==
    /\ last.op = "Panic"
    /\ TracedCase(last.req)
    /\ last.req.span.ends = 1

\* C3: a request for which the Filter answers true is not traced: no extract,
\* no span started or ended, neither id key in the store, and the inner
\* handler is called once, with the original context.
BypassedTracing(req) ==
    /\ Count(req.events, "extract") = 0
    /\ Count(req.events, "start") = 0
    /\ Count(req.events, "end") = 0
    /\ req.span = NoSpan
    /\ ContextKeyOtelTraceID \notin req.store
    /\ ContextKeyOtelSpanID \notin req.store
    /\ Count(req.events, "next") = 1
    /\ req.handlerCtx = OrigCtx

C3_FilterBypassesTracing ==
    /\ \A req \in Running :
          (~ConnectorOf(req).isNoOp /\ FilterHit(req)) => BypassedTracing(req)
    /\ (Finished /\ ~ConnectorOf(last.req).isNoOp /\ FilterHit(last.req)) =>
          BypassedTracing(last.req)

C3_Witness ==
    /\ last.op = "Return"
    /\ ~ConnectorOf(last.req).isNoOp
    /\ FilterHit(last.req)
    /\ Count(last.req.events, "next") = 1

\* C4: when the inner handler of a traced request returns a non-nil error, the
\* span records exactly that error and its status is Error, whatever the
\* response status code.
C4_HandlerErrorRecorded ==
    (last.op = "Return" /\ TracedCase(last.req) /\ last.handlerErr # Nil) =>
        /\ last.req.span.recorded = <<last.handlerErr>>
        /\ last.req.span.status = "Error"

C4_Witness ==
    /\ last.op = "Return"
    /\ TracedCase(last.req)
    /\ last.handlerErr = "e2"
    /\ last.statusCode < 500
    /\ last.req.span.status = "Error"

\* C5: when the inner handler of a traced request returns no error, no error
\* is recorded on the span and its status is Error if the status code is
\* >= 500 and stays Unset if it is < 500.
C5_StatusFromStatusCode ==
    (last.op = "Return" /\ TracedCase(last.req) /\ last.handlerErr = Nil) =>
        /\ last.req.span.recorded = <<>>
        /\ last.statusCode >= 500 => last.req.span.status = "Error"
        /\ last.statusCode < 500 => last.req.span.status = "Unset"

C5_Witness ==
    /\ last.op = "Return"
    /\ TracedCase(last.req)
    /\ last.handlerErr = Nil
    /\ last.statusCode = 500
    /\ last.req.span.status = "Error"

\* C6: on every path (no-op connector, filtered, traced) the middleware
\* returns the value the inner handler returned, nil or the same error.
C6_ErrorPassedThrough ==
    last.op = "Return" => last.err = last.handlerErr

C6_Witness ==
    /\ last.op = "Return"
    /\ TracedCase(last.req)
    /\ last.handlerErr = "e1"
    /\ last.err = "e1"

\* C7: New with Disabled=true returns a connector with IsNoOp() true, whatever
\* the other fields; its middleware passes the request through: original
\* context, no span, Filter and SpanNameFormatter not invoked, no id key in the
\* store.
PassedThrough(req) ==
    /\ req.handlerCtx = OrigCtx
    /\ req.span = NoSpan
    /\ Count(req.events, "start") = 0
    /\ Count(req.events, "filter") = 0
    /\ Count(req.events, "formatter") = 0
    /\ Count(req.events, "next") = 1
    /\ req.store = {}

C7_DisabledIsPassThrough ==
    /\ (last.op = "New" /\ last.cfg.Disabled) =>
          last.err = Nil /\ IsNoOp(connectors[last.conn])
    /\ \A i \in 1..Len(connectors) : connectors[i].config.Disabled => IsNoOp(connectors[i])
    /\ \A req \in Running : ConnectorOf(req).config.Disabled => PassedThrough(req)
    /\ (Finished /\ ConnectorOf(last.req).config.Disabled) => PassedThrough(last.req)

C7_Witness ==
    /\ last.op = "Return"
    /\ ConnectorOf(last.req).config.Disabled
    /\ ConnectorOf(last.req).config.AppLogger = Nil
    /\ last.req.path = "/health"
    /\ last.req.handlerCtx = OrigCtx

\* C8: Close calls Shutdown exactly when the connector is active and created
\* its provider itself, and then on that provider; otherwise it returns nil
\* and shuts nothing down; a provider supplied from outside never receives a
\* Shutdown, however often Close is called.
CreatedInternally(i) == connectors[i].tracer.tp = InternalTP(i)

C8_CloseShutsDownOwnProviderOnly ==
    /\ last.op = "Close" =>
          /\ last.shutdown # Nil <=>
                (~IsNoOp(connectors[last.conn]) /\ CreatedInternally(last.conn))
          /\ last.shutdown # Nil => last.shutdown = InternalTP(last.conn)
          /\ last.shutdown = Nil => last.err = <<>>
    /\ shutdowns[ExtSDK] = 0
    /\ shutdowns[ExtTP] = 0
    /\ shutdowns[DefaultTP] = 0

C8_Witness ==
    /\ last.op = "Close"
    /\ last.shutdown = InternalTP(1)
    /\ shutdowns[InternalTP(1)] = 2

\* C9 as stated: New returns an error whenever Config.AppLogger is missing.
C9_Original ==
    (last.op = "New" /\ last.cfg.AppLogger = Nil) => last.err # Nil

\* C9, amended: New returns an error (and no connector) whenever
\* Config.AppLogger is missing and Disabled is false.
C9_LoggerRequiredUnlessDisabled ==
    (last.op = "New" /\ last.cfg.AppLogger = Nil /\ ~last.cfg.Disabled) =>
        /\ last.err # Nil
        /\ last.conn = NoConnector
        /\ connectors = <<>>

C9_Witness ==
    /\ last.op = "New"
    /\ last.cfg.AppLogger = Nil
    /\ ~last.cfg.Disabled
    /\ last.cfg.ExternalSDKTracerProvider # Nil
    /\ last.err = ErrLogger

\* C10 as stated: New returns an error whenever ServiceName is empty and no
\* external provider is supplied; with an external provider an empty
\* ServiceName causes no error.
NoExternal(cfg) ==
    cfg.ExternalTracerProvider = Nil /\ cfg.ExternalSDKTracerProvider = Nil

ServiceNameRule(cfg, err) ==
    /\ (cfg.ServiceName = "" /\ NoExternal(cfg)) => err # Nil
    /\ (cfg.ServiceName = "" /\ ~NoExternal(cfg)) =>
          /\ err # ErrServiceName
          /\ cfg.AppLogger # Nil => err = Nil

C10_Original ==
    last.op = "New" => ServiceNameRule(last.cfg, last.err)

\* C10, amended: when Disabled is false, New returns an error whenever
\* ServiceName is empty and no external provider is supplied; with an external
\* provider an empty ServiceName causes no error.
C10_ServiceNameRequiredUnlessDisabled ==
    (last.op = "New" /\ ~last.cfg.Disabled) => ServiceNameRule(last.cfg, last.err)

C10_Witness ==
    /\ last.op = "New"
    /\ ~last.cfg.Disabled
    /\ last.cfg.AppLogger # Nil
    /\ last.cfg.ServiceName = ""
    /\ NoExternal(last.cfg)
    /\ last.err = ErrServiceName

\* The exporter constructor (otlptracegrpc.New or stdouttrace.New) is called
\* in the New call of the last step: the internal path is taken and the
\* exporter type and endpoint pass the checks before the constructor.
CtorCalled ==
    /\ last.op = "New"
    /\ ~last.cfg.Disabled
    /\ last.cfg.AppLogger # Nil
    /\ last.cfg.ServiceName # ""
    /\ NoExternal(last.cfg)
    /\ \/ last.cfg.Exporter = ExporterStdout
       \/ last.cfg.Exporter = "" /\ last.mode # ReleaseMode
       \/ last.cfg.Exporter = ExporterOTLPGRPC /\ last.cfg.OTLPEndpoint # ""

\* C11 as stated: New returns an error whenever Exporter is the OTLP gRPC
\* exporter and OTLP.Endpoint is empty, and whenever the exporter constructor
\* returns an error.
C11_Original ==
    /\ (last.op = "New" /\ last.cfg.Exporter = ExporterOTLPGRPC
          /\ last.cfg.OTLPEndpoint = "") => last.err # Nil
    /\ (CtorCalled /\ last.ctorFails) => last.err # Nil

\* C11, amended: when Disabled is false and no external provider is supplied,
\* New returns an error and no connector whenever Exporter is the OTLP gRPC
\* exporter and OTLP.Endpoint is empty, whenever Exporter names no supported
\* exporter, and whenever the exporter constructor returns an error.
C11_ExporterFailureIsError ==
    /\ (last.op = "New" /\ ~last.cfg.Disabled /\ NoExternal(last.cfg)
          /\ \/ last.cfg.Exporter = ExporterOTLPGRPC /\ last.cfg.OTLPEndpoint = ""
             \/ last.cfg.Exporter = "bogus") =>
          /\ last.err # Nil
          /\ last.conn = NoConnector
          /\ connectors = <<>>
    /\ (CtorCalled /\ last.ctorFails) =>
          /\ last.err = ErrExporterCtor
          /\ last.conn = NoConnector
          /\ connectors = <<>>

C11_Witness ==
    /\ last.op = "New"
    /\ ~last.cfg.Disabled
    /\ NoExternal(last.cfg)
    /\ last.cfg.Exporter = ExporterOTLPGRPC
    /\ last.cfg.OTLPEndpoint = ""
    /\ last.err = ErrEndpoint

C11_WitnessCtor ==
    /\ CtorCalled
    /\ last.ctorFails
    /\ last.cfg.Exporter = ExporterOTLPGRPC
    /\ last.err = ErrExporterCtor

\* The New call of the last step returned a connector and no error.
NewSucceeded == last.op = "New" /\ last.err = Nil /\ last.conn # NoConnector

\* The exporter type New works with: the configured one, or the default by
\* framework mode when none is configured.
ResolvedExporter ==
    IF last.cfg.Exporter # "" THEN last.cfg.Exporter
    ELSE IF last.mode = ReleaseMode THEN ExporterNone
    ELSE ExporterStdout

\* C12: for every config on which New succeeds, the connector is no-op if and
\* only if Disabled is true, or the exporter resolves to none and no external
\* provider is supplied; in every other successful case it is active.
C12_NoOpIffDisabledOrNoProvider ==
    NewSucceeded =>
        (IsNoOp(connectors[last.conn]) <=>
            \/ last.cfg.Disabled
            \/ ResolvedExporter = ExporterNone /\ NoExternal(last.cfg))

C12_Witness ==
    /\ NewSucceeded
    /\ ~last.cfg.Disabled
    /\ last.cfg.Exporter = ExporterNone
    /\ last.cfg.ExternalTracerProvider # Nil
    /\ ~IsNoOp(connectors[last.conn])

\* The steps of New that can fail, from the inputs of the call: the two
\* required fields, the exporter checks and constructor, the resource merge.
MergeReached == CtorCalled /\ ~last.ctorFails

FailurePath ==
    /\ last.op = "New"
    /\ ~last.cfg.Disabled
    /\ \/ last.cfg.AppLogger = Nil
       \/ last.cfg.ServiceName = "" /\ NoExternal(last.cfg)
       \/ NoExternal(last.cfg) /\ ResolvedExporter = ExporterOTLPGRPC
            /\ last.cfg.OTLPEndpoint = ""
       \/ NoExternal(last.cfg) /\ ResolvedExporter = "bogus"
       \/ CtorCalled /\ last.ctorFails
       \/ MergeReached /\ last.mergeFails

\* A connector with every field New sets on the path it was built on.
Complete(c) ==
    IF c.config.Disabled
        THEN c = DisabledConnector(last.cfg)
    ELSE /\ c.tracer # NoTracer
         /\ c.tracer.tp # Nil
         /\ c.propagator # Nil
         /\ c.config.ManageGlobalProviders \in {MGPTrue, MGPFalse}
         /\ c.config.ShutdownTimeout > 0

\* C13: New never returns a partial connector: on every failure path (missing
\* logger, missing service name, exporter failure, resource-merge failure) it
\* returns a nil connector and a non-nil error, on every other path a non-nil
\* connector, fully built, and a nil error.
C13_ConnectorOrError ==
    last.op = "New" =>
        /\ FailurePath =>
              /\ last.err # Nil
              /\ last.conn = NoConnector
              /\ connectors = <<>>
        /\ ~FailurePath =>
              /\ last.err = Nil
              /\ last.conn = 1
              /\ Len(connectors) = 1
              /\ Complete(connectors[1])

C13_Witness ==
    /\ last.op = "New"
    /\ MergeReached
    /\ last.mergeFails
    /\ last.err = ErrMerge
    /\ last.conn = NoConnector
    /\ connectors = <<>>

\* C14: in every connector New returns the tracer provider is either created
\* internally or supplied externally, never both: the managed-provider field
\* is set only when neither external provider was supplied, and an active
\* connector has exactly one of the two sources.
C14_InternalXorExternal ==
    NewSucceeded =>
        LET c == connectors[last.conn]
            external == ~last.cfg.Disabled /\ ~NoExternal(last.cfg)
            internal == c.tracerProvider # Nil
        IN  /\ internal => NoExternal(last.cfg)
            /\ internal => c.tracerProvider = InternalTP(last.conn)
            /\ ~IsNoOp(c) => (internal # external)
            /\ (~IsNoOp(c) /\ internal) => c.tracer.tp = c.tracerProvider
            /\ (~IsNoOp(c) /\ external) => c.tracer.tp \in {ExtSDK, ExtTP}
            /\ IsNoOp(c) => ~internal

C14_Witness ==
    /\ NewSucceeded
    /\ last.cfg.Exporter = ExporterStdout
    /\ last.cfg.ExternalTracerProvider # Nil
    /\ last.cfg.ExternalSDKTracerProvider = Nil
    /\ ~IsNoOp(connectors[last.conn])
    /\ connectors[last.conn].tracerProvider = Nil
    /\ connectors[last.conn].tracer.tp = ExtTP

\* C16: when ManageGlobalProviders is explicitly false, New leaves the global
\* tracer provider and the global propagator as they were, whichever provider
\* and propagator the config leads to.
C16_UnmanagedGlobalsUntouched ==
    (last.op = "New" /\ last.cfg.ManageGlobalProviders = MGPFalse) =>
        /\ global.tp = last.globalBefore.tp
        /\ global.prop = last.globalBefore.prop

C16_Witness ==
    /\ NewSucceeded
    /\ last.cfg.ManageGlobalProviders = MGPFalse
    /\ ~IsNoOp(connectors[last.conn])
    /\ connectors[last.conn].tracerProvider = InternalTP(1)
    /\ connectors[last.conn].propagator = CustomProp
    /\ global.tp = DefaultTP
    /\ global.prop = DefaultGlobalProp

\* C18: when both ExternalSDKTracerProvider and ExternalTracerProvider are
\* supplied (and the connector is not disabled), the connector uses the SDK
\* provider and, when it manages the globals, registers it; the other one is
\* neither used nor registered.
C18_SDKProviderTakesPrecedence ==
    (NewSucceeded /\ ~last.cfg.Disabled
        /\ last.cfg.ExternalSDKTracerProvider # Nil
        /\ last.cfg.ExternalTracerProvider # Nil) =>
        LET c == connectors[last.conn]
        IN  /\ ~IsNoOp(c)
            /\ c.tracer.tp = ExtSDK
            /\ GetTracer(c, global, "app").tp = ExtSDK
            /\ last.cfg.ManageGlobalProviders # MGPFalse => global.tp = ExtSDK
            /\ last.cfg.ManageGlobalProviders = MGPFalse => global.tp = last.globalBefore.tp
            /\ global.tp # ExtTP

C18_Witness ==
    /\ NewSucceeded
    /\ ~last.cfg.Disabled
    /\ last.cfg.ExternalSDKTracerProvider # Nil
    /\ last.cfg.ExternalTracerProvider # Nil
    /\ last.cfg.ManageGlobalProviders = MGPUnset
    /\ global.tp = ExtSDK
    /\ connectors[last.conn].tracer.tp = ExtSDK

\* The config of the last New call with the exporter its unset Exporter
\* resolves to written out.
ExplicitConfig == [last.cfg EXCEPT !.Exporter = ResolvedExporter]

\* What New returns and leaves for ExplicitConfig, in the same environment.
ExplicitResult ==
    NewResult(ExplicitConfig, last.mode, last.ctorFails, last.mergeFails,
              last.globalBefore, InternalTP(1))

\* C19: with Exporter unset New works with stdout in debug and test mode and
\* with none in release mode, and returns and leaves exactly what it does when
\* that value is configured: in release mode without an external provider a
\* no-op connector, in debug or test mode without one a connector with an
\* internally created provider.
C19_DefaultExporterByMode ==
    (last.op = "New" /\ last.cfg.Exporter = "") =>
        /\ last.err = ExplicitResult.err
        /\ global = ExplicitResult.global
        /\ last.exporterCreated = ExplicitResult.exporterCreated
        /\ IF last.err = Nil
              THEN connectors = <<ExplicitResult.conn>>
              ELSE connectors = <<>> /\ ExplicitResult.conn = NilConnector
        /\ (NewSucceeded /\ ~last.cfg.Disabled /\ NoExternal(last.cfg)) =>
              /\ last.mode = ReleaseMode =>
                    /\ IsNoOp(connectors[1])
                    /\ ~last.exporterCreated
              /\ last.mode \in {DebugMode, TestMode} =>
                    /\ ~IsNoOp(connectors[1])
                    /\ connectors[1].tracerProvider = InternalTP(1)
                    /\ last.exporterCreated

C19_Witness ==
    /\ NewSucceeded
    /\ last.cfg.Exporter = ""
    /\ ~last.cfg.Disabled
    /\ NoExternal(last.cfg)
    /\ last.mode = ReleaseMode
    /\ IsNoOp(connectors[1])

\* C15 as stated: GetTracer on a no-op connector returns a no-op tracer, one
\* that does not come from a real tracer provider, whatever New calls happened
\* in the process before.
C15_NoOpConnectorTracerIsNoOp ==
    \A i \in 1..Len(connectors) :
        IsNoOp(connectors[i]) => GetTracer(connectors[i], global, "app").tp = DefaultTP

\* The globals a call can find: any provider, any propagator.
Globals ==
    [tp : Providers, prop : {DefaultGlobalProp, CompositeProp, CustomProp}]

\* An active connector that does not manage the globals.
Unmanaged(c) == ~c.isNoOp /\ c.config.ManageGlobalProviders = MGPFalse

\* The provider and propagator a config supplies or makes New create for the
\* connector in place i.
OwnProvider(cfg, i) ==
    IF cfg.ExternalSDKTracerProvider # Nil THEN ExtSDK
    ELSE IF cfg.ExternalTracerProvider # Nil THEN ExtTP
    ELSE InternalTP(i)

OwnPropagator(cfg) ==
    IF cfg.Propagator # Nil THEN CustomProp ELSE CompositeProp

UsesOwn(req) ==
    /\ req.traced
    /\ req.span.tracer.tp = ConnectorOf(req).tracer.tp
    /\ middlewares[req.mw].propagator = ConnectorOf(req).propagator

\* C17: on an active connector with ManageGlobalProviders false, GetTracer,
\* Propagator and the middleware use the provider and propagator the config
\* supplied or New created for this connector, whatever the global provider
\* and propagator are when they are called.
C17_UnmanagedUsesOwnProviders ==
    /\ (NewSucceeded /\ Unmanaged(connectors[last.conn])) =>
          /\ connectors[last.conn].tracer.tp = OwnProvider(last.cfg, last.conn)
          /\ connectors[last.conn].propagator = OwnPropagator(last.cfg)
    /\ \A i \in 1..Len(connectors) : Unmanaged(connectors[i]) =>
          \A g \in Globals :
              /\ GetTracer(connectors[i], g, "app").tp = connectors[i].tracer.tp
              /\ Propagator(connectors[i], g) = connectors[i].propagator
    /\ \A m \in 1..Len(middlewares) : Unmanaged(connectors[middlewares[m].conn]) =>
          /\ middlewares[m].tracer.tp = connectors[middlewares[m].conn].tracer.tp
          /\ middlewares[m].propagator = connectors[middlewares[m].conn].propagator
    /\ \A req \in Running : Unmanaged(ConnectorOf(req)) => UsesOwn(req)
    /\ (Finished /\ Unmanaged(ConnectorOf(last.req))) => UsesOwn(last.req)

C17_Witness ==
    /\ last.op = "Return"
    /\ Unmanaged(ConnectorOf(last.req))
    /\ ConnectorOf(last.req).tracerProvider = InternalTP(1)
    /\ last.req.span.tracer.tp = InternalTP(1)
    /\ global.tp = ExtTP
    /\ middlewares[last.req.mw].propagator = CompositeProp
    /\ global.prop = CustomProp

\* A step adds one request to those in flight, takes one away, or leaves them
\* alone; the request taken away is the one the step finished, with the span
\* and context it entered with.
RequestsIsolated ==
    \/ requests' = requests
    \/ \E r \in BagToSet(requests') : requests' = requests (+) SetToBag({r})
    \/ \E r \in BagToSet(requests) :
          /\ requests' = requests (-) SetToBag({r})
          /\ last'.op \in {"Return", "Panic"}
          /\ last'.req.mw = r.mw
          /\ last'.req.handlerCtx = r.handlerCtx
          /\ last'.req.span.tracer = r.span.tracer
          /\ last'.req.span.parent = r.span.parent
          /\ last'.req.span.ends = r.span.ends + (IF r.traced THEN 1 ELSE 0)

\* C20: whatever the interleaving of requests and of GetTracer, Propagator,
\* IsNoOp and Close calls, no step after New changes a field of a connector,
\* and a step that finishes a request touches the span and context of that
\* request only.
C20_ConnectorReadOnlyAfterNew ==
    [][ /\ \A i \in 1..Len(connectors) :
              /\ i <= Len(connectors')
              /\ connectors'[i] = connectors[i]
        /\ RequestsIsolated ]_vars

C20_Witness ==
    /\ last.op = "Close"
    /\ last.shutdown = InternalTP(1)
    /\ BagCardinality(requests) = 2
    /\ \E req \in Running : req.traced
    /\ connectors[1].tracerProvider = InternalTP(1)
    /\ ~IsNoOp(connectors[1])

\* The place of the first e in seq, 0 when there is none.
Pos(seq, e) ==
    IF \E k \in DOMAIN seq : seq[k] = e
        THEN CHOOSE k \in DOMAIN seq : seq[k] = e /\ \A j \in 1..(k - 1) : seq[j] # e
    ELSE 0

\* Event a occurs in seq, and before the first b.
Before(seq, a, b) == Pos(seq, a) > 0 /\ Pos(seq, a) < Pos(seq, b)

\* Both ids are in the store, put there before the inner handler was called.
IDsInStoreBeforeHandler(req) ==
    /\ ContextKeyOtelTraceID \in req.store
    /\ ContextKeyOtelSpanID \in req.store
    /\ Before(req.events, "setTraceID", "next")
    /\ Before(req.events, "setSpanID", "next")

\* C21 as stated: for every request the tracing middleware handles, the trace
\* id and the span id of its server span are in the store before the inner
\* handler is called and for as long as it runs.
C21_Original ==
    /\ \A req \in Running : TracedCase(req) => IDsInStoreBeforeHandler(req)
    /\ (Finished /\ TracedCase(last.req)) => IDsInStoreBeforeHandler(last.req)

\* C21, amended: for every request the tracing middleware handles whose span
\* context has a trace id and a span id (every span of an SDK provider), both
\* ids are in the store before the inner handler is called and for as long as
\* it runs; an id the span context does not have is not written.
C21_ValidIDsInStoreBeforeHandler ==
    /\ \A req \in Running : TracedCase(req) =>
          /\ req.span.sc = ValidSpanContext => IDsInStoreBeforeHandler(req)
          /\ req.span.tracer.tp \in {ExtSDK} \cup {InternalTP(n) : n \in 1..MaxConnectors} =>
                IDsInStoreBeforeHandler(req)
          /\ req.span.sc = InvalidSpanContext => req.store = {}
    /\ (Finished /\ TracedCase(last.req) /\ last.req.span.sc = ValidSpanContext) =>
          IDsInStoreBeforeHandler(last.req)

C21_Witness ==
    \E req \in Running :
        /\ TracedCase(req)
        /\ req.span.tracer.tp = InternalTP(1)
        /\ req.span.sc = ValidSpanContext
        /\ IDsInStoreBeforeHandler(req)
        /\ Count(req.events, "end") = 0

\* C22 as stated: the tracer of every tracing middleware, and so of every
\* span it starts, carries the instrumentation name MiddlewareConfig.TracerName,
\* or "xylium.otel.middleware" when that is empty, whatever provider the active
\* connector has and whether or not it manages the globals.
C22_MiddlewareTracerName ==
    /\ \A m \in 1..Len(middlewares) : ~middlewares[m].passThrough =>
          /\ middlewares[m].TracerName \in {"app.http", defaultMiddlewareTracerName}
          /\ middlewares[m].tracer.name = middlewares[m].TracerName
    /\ \A req \in Running : req.traced =>
          req.span.tracer.name = middlewares[req.mw].TracerName

\* C23: Close on a connector with an internally managed provider returns nil
\* exactly when the provider's Shutdown returns nil, and otherwise an error
\* that wraps the Shutdown error; Shutdown runs under a context bounded by
\* ShutdownTimeout, which is 5 seconds when the configured value is <= 0.
C23_CloseReturnsShutdownError ==
    /\ (NewSucceeded /\ ~last.cfg.Disabled) =>
          connectors[last.conn].config.ShutdownTimeout =
              IF last.cfg.ShutdownTimeout <= 0 THEN 5 ELSE last.cfg.ShutdownTimeout
    /\ (last.op = "Close" /\ connectors[last.conn].tracerProvider # Nil) =>
          /\ last.shutdown = connectors[last.conn].tracerProvider
          /\ last.timeout = connectors[last.conn].config.ShutdownTimeout
          /\ last.timeout > 0
          /\ last.err = <<>> <=> last.shutdownErr = Nil
          /\ last.shutdownErr # Nil =>
                /\ Len(last.err) = 2
                /\ last.err[2] = last.shutdownErr

C23_Witness ==
    /\ last.op = "Close"
    /\ connectors[last.conn].tracerProvider = InternalTP(1)
    /\ last.shutdownErr = ErrShutdown
    /\ last.timeout = DefaultShutdownTimeout
    /\ last.err # <<>>

\* C24: when an external provider is supplied New does not look at the
\* exporter configuration: it constructs no exporter and no provider of its
\* own, and no value of Exporter or OTLP makes it fail (with a logger, or
\* disabled, it succeeds), the OTLP exporter with an empty endpoint and an
\* unknown exporter type included.
C24_ExternalProviderIgnoresExporter ==
    (last.op = "New" /\ ~NoExternal(last.cfg)) =>
        /\ ~last.exporterCreated
        /\ last.exporterShutdowns = 0
        /\ last.err \in {Nil, ErrLogger}
        /\ (last.cfg.AppLogger # Nil \/ last.cfg.Disabled) =>
              /\ last.err = Nil
              /\ last.conn = 1
              /\ connectors[1].tracerProvider = Nil
              /\ ~last.cfg.Disabled => connectors[1].tracer.tp \in {ExtSDK, ExtTP}

C24_Witness ==
    /\ NewSucceeded
    /\ ~last.cfg.Disabled
    /\ last.cfg.ExternalTracerProvider # Nil
    /\ last.cfg.Exporter = ExporterOTLPGRPC
    /\ last.cfg.OTLPEndpoint = ""
    /\ connectors[1].tracer.tp = ExtTP
    /\ ~last.exporterCreated

\* C25: when the resource merge fails after the exporter was created, the
\* exporter's Shutdown is called exactly once before New returns the error, no
\* tracer provider is created, and this call sets neither a managed provider
\* nor the global provider; when New succeeds the exporter is not shut down
\* during New.
C25_MergeFailureShutsExporterDown ==
    /\ (MergeReached /\ last.mergeFails) =>
          /\ last.err = ErrMerge
          /\ last.exporterCreated
          /\ last.exporterShutdowns = 1
          /\ last.conn = NoConnector
          /\ connectors = <<>>
          /\ global = last.globalBefore
    /\ NewSucceeded => last.exporterShutdowns = 0
    /\ (MergeReached /\ ~last.mergeFails) =>
          /\ NewSucceeded
          /\ last.exporterCreated
          /\ connectors[last.conn].tracerProvider = InternalTP(last.conn)

C25_Witness ==
    /\ MergeReached
    /\ last.mergeFails
    /\ last.cfg.Exporter = ExporterOTLPGRPC
    /\ last.cfg.ManageGlobalProviders = MGPTrue
    /\ last.exporterShutdowns = 1
    /\ global.tp = DefaultTP

\* The events of a traced request up to the call of the inner handler, and
\* those after its return, in the order the claim gives them.
EventsBeforeHandler(req) ==
    (IF FilterOf(req) # Nil THEN <<"filter">> ELSE <<>>)
        \o <<"extract", "formatter", "start">>
        \o (IF req.span.sc.traceID THEN <<"setTraceID">> ELSE <<>>)
        \o (IF req.span.sc.spanID THEN <<"setSpanID">> ELSE <<>>)
        \o <<"next">>

EventsAfterReturn(err, statusCode) ==
    <<"statusAttr">>
        \o (IF err # Nil THEN <<"recordError", "setStatus">>
            ELSE IF statusCode >= 500 THEN <<"setStatus">>
            ELSE <<>>)
        \o <<"end", "return">>

\* C26: the events of a traced request occur in the order filter check,
\* extract, span start, id injection, inner handler call, status-code
\* attribute, error and status recording, span end; the status code is
\* attached to the span whether or not the handler returned an error, and
\* nothing is recorded on the span after its end.
C26_EventOrder ==
    /\ \A req \in Running : TracedCase(req) => req.events = EventsBeforeHandler(req)
    /\ (last.op = "Return" /\ TracedCase(last.req)) =>
          /\ last.req.events =
                EventsBeforeHandler(last.req)
                    \o EventsAfterReturn(last.handlerErr, last.statusCode)
          /\ last.req.span.statusCode = last.statusCode
    /\ (last.op = "Panic" /\ TracedCase(last.req)) =>
          last.req.events = EventsBeforeHandler(last.req) \o <<"end">>

C26_Witness ==
    /\ last.op = "Return"
    /\ TracedCase(last.req)
    /\ FilterOf(last.req) # Nil
    /\ last.handlerErr # Nil
    /\ last.req.span.statusCode = 499
    /\ Before(last.req.events, "recordError", "end")
    /\ Before(last.req.events, "statusAttr", "recordError")

\* The parent of a span the inner handler starts from the Go context it is
\* called with: the server span when that is the context tracer.Start
\* returned, and whatever the request arrived with otherwise.
ParentOfHandlerSpan(req) ==
    IF req.handlerCtx = TracedCtx THEN "serverSpan" ELSE "arrived"

ParentRule(req) ==
    /\ req.traced
    /\ req.hasHeaders => req.span.parent = "remote"
    /\ ~req.hasHeaders => req.span.parent = "root"
    /\ ParentOfHandlerSpan(req) = "serverSpan"

\* C27: the server span of a traced request has the context Extract returned
\* as its parent, so it continues the remote trace when the request carries
\* propagation headers and is a fresh root otherwise; the inner handler is
\* called with the context the span start returned, so a span it starts from
\* that context is a child of the server span.
C27_SpanParentAndHandlerContext ==
    /\ \A req \in Running : TracedCase(req) => ParentRule(req)
    /\ (Finished /\ TracedCase(last.req)) => ParentRule(last.req)

C27_Witness ==
    \E req \in Running :
        /\ TracedCase(req)
        /\ req.hasHeaders
        /\ req.span.parent = "remote"
        /\ middlewares[req.mw].propagator = CustomProp
        /\ req.handlerCtx = TracedCtx

\* C28: in every mode (no-op connector, request skipped by the filter, traced
\* request), and whatever was done with the connector before, Close included,
\* the middleware calls the inner handler exactly once for each request.
C28_HandlerCalledOnce ==
    /\ \A req \in Running : Count(req.events, "next") = 1
    /\ Finished => Count(last.req.events, "next") = 1

C28_Witness ==
    /\ last.op = "Return"
    /\ FilterHit(last.req)
    /\ ~ConnectorOf(last.req).isNoOp
    /\ shutdowns[InternalTP(1)] > 0
    /\ last.handlerErr # Nil
    /\ Count(last.req.events, "next") = 1

\* C29: a New call that returns an error, or the no-op connector of
\* Disabled=true, leaves the global tracer provider and the global propagator
\* as they were before the call, whatever they were.
C29_FailedOrDisabledNewLeavesGlobals ==
    (last.op = "New" /\ (last.err # Nil \/ last.cfg.Disabled)) =>
        /\ global.tp = last.globalBefore.tp
        /\ global.prop = last.globalBefore.prop

C29_Witness ==
    /\ last.op = "New"
    /\ last.err = ErrMerge
    /\ last.cfg.ManageGlobalProviders = MGPUnset
    /\ Len(connectors) = 1
    /\ last.globalBefore = [tp |-> ExtTP, prop |-> CustomProp]
    /\ global = last.globalBefore

\* An active connector that manages the globals (the default).
Managed(c) == ~c.isNoOp /\ c.config.ManageGlobalProviders = MGPTrue

\* C30 as stated: with ManageGlobalProviders at its default, after any
\* successful New calls, GetTracer of each active connector and each
\* middleware built from it start spans on the provider this connector
\* resolved in its own New, not on one registered by another New; and Close
\* of a connector never shuts down the provider another connector's spans go
\* to.
C30_ManagedConnectorUsesOwnProvider ==
    /\ \A i \in 1..Len(connectors) : Managed(connectors[i]) =>
          GetTracer(connectors[i], global, "app").tp = connectors[i].tracer.tp
    /\ \A m \in 1..Len(middlewares) : Managed(connectors[middlewares[m].conn]) =>
          middlewares[m].tracer.tp = connectors[middlewares[m].conn].tracer.tp
    /\ (last.op = "Close" /\ last.shutdown # Nil) =>
          \A m \in 1..Len(middlewares) :
              (middlewares[m].conn # last.conn /\ ~middlewares[m].passThrough) =>
                  middlewares[m].tracer.tp # last.shutdown

====
